---------------------------- MODULE Spec2Model ----------------------------
(***************************************************************************)
(* hubploy/auth.py: scoped authentication against cloud container         *)
(* registries (registry_auth) and Kubernetes clusters (cluster_auth), and  *)
(* scoped decryption of secret files (decrypt_file).                       *)
(*                                                                         *)
(* One process runs one scoped call at a time.  A call is a Python         *)
(* generator driven by contextlib.contextmanager: it runs its setup up to  *)
(* a yield, the caller's with-block ("work") runs, and the generator is    *)
(* resumed (or the block's exception is thrown in at the yield) so that    *)
(* the finally clauses run.  Each statement with an effect on the process  *)
(* environment, the file system or an external command is one step.        *)
(***************************************************************************)
EXTENDS Naturals, Sequences, FiniteSets, TLC

(***************************************************************************)
(* Python values.                                                          *)
(***************************************************************************)
None    == "<None>"       \* Python's None
Unbound == "<unbound>"    \* a local variable that was never assigned

\* Temporary files created in one process are numbered; a call is started only
\* while two more (the kubeconfig file and the decrypted secret) may be created.
MaxTmp == 3

TmpName(n) == "/tmp/tmp" \o ToString(n)

(***************************************************************************)
(* os.environ: a mapping from the names that are set to their values.      *)
(***************************************************************************)
EnvVars == {"AWS_SHARED_CREDENTIALS_FILE", "AWS_ACCESS_KEY_ID",
            "AWS_SECRET_ACCESS_KEY", "AWS_SESSION_TOKEN", "KUBECONFIG"}

AwsRoleVars == {"AWS_ACCESS_KEY_ID", "AWS_SECRET_ACCESS_KEY", "AWS_SESSION_TOKEN"}

\* Values a variable may hold before a call: the empty string or some text.
OldValues == {"", "orig"}

EnvStates == UNION { [S -> OldValues] : S \in SUBSET EnvVars }

\* os.environ.get(k, None)
EnvGet(e, k) == IF k \in DOMAIN e THEN e[k] ELSE None

\* os.environ[k] = v
EnvSet(e, k, v) == [x \in (DOMAIN e) \cup {k} |-> IF x = k THEN v ELSE e[x]]

\* del os.environ[k], for k set
EnvDel(e, k) == [x \in (DOMAIN e) \ {k} |-> e[x]]

\* unset_env_var with the truthiness test "if old_env_var_value:" in place of
\* "is not None": an empty prior value is dropped.
unset_env_var_truthy(e, env_var, old_env_var_value) ==
    IF old_env_var_value \notin {None, ""}
    THEN EnvSet(EnvDel(e, env_var), env_var, old_env_var_value)
    ELSE EnvDel(e, env_var)

\* unset_env_var that restores the value the variable had when the process
\* started instead of the value saved by the call.
unset_env_var_process_value(e, env_var, old_env_var_value) ==
    IF old_env_var_value \in OldValues
    THEN EnvSet(EnvDel(e, env_var), env_var, old_env_var_value)
    ELSE EnvDel(e, env_var)

\* unset_env_var(env_var, old_env_var_value), for env_var set: the variable is
\* deleted, and set again when the old value is not None.
unset_env_var(e, env_var, old_env_var_value) ==
    IF old_env_var_value # None
    THEN EnvSet(EnvDel(e, env_var), env_var, old_env_var_value)
    ELSE EnvDel(e, env_var)

(***************************************************************************)
(* Secret files.  A file has an extension and a content; the content is    *)
(* given by what the YAML / JSON parser makes of it: an error of some      *)
(* class, or the parsed top-level value.                                   *)
(***************************************************************************)
Exts == {".yaml", ".yml", ".json", ".txt"}

Chars(w) == CASE w = "sops"  -> <<"s", "o", "p", "s">>
              [] w = "my sops" -> <<"m", "y", " ", "s", "o", "p", "s">>
              [] w = "plain" -> <<"p", "l", "a", "i", "n">>

\* Parsed top-level values: a mapping (its keys), a list (its items), a string
\* (its characters), a number, null.
MapDoc(ks)  == [kind |-> "map",  keys |-> ks, items |-> <<>>]
ListDoc(xs) == [kind |-> "list", keys |-> {}, items |-> xs]
StrDoc(w)   == [kind |-> "str",  keys |-> {}, items |-> Chars(w)]
IntDoc      == [kind |-> "int",  keys |-> {}, items |-> <<>>]
NullDoc     == [kind |-> "null", keys |-> {}, items |-> <<>>]

AzureKeys == {"appId", "tenant", "password"}

Docs == { MapDoc({"data"}), MapDoc({"sops", "data"}),
          MapDoc(AzureKeys), MapDoc(AzureKeys \cup {"sops"}),
          ListDoc(<<"a">>), ListDoc(<<"a", "sops">>),
          StrDoc("plain"), StrDoc("my sops"),
          IntDoc, NullDoc }

\* What the parser of a format can raise.
YamlErrors == {"ScannerError", "ParserError"}
JsonErrors == {"JSONDecodeError", "UnicodeDecodeError"}

ParseErrors(ext) == IF ext = ".json" THEN JsonErrors ELSE YamlErrors

Files == [ext : Exts, exists : {TRUE}, parse : {"ok"}, doc : Docs]
         \cup { f \in [ext : Exts, exists : {TRUE},
                       parse : YamlErrors \cup JsonErrors, doc : {NullDoc}] :
                    f.parse \in ParseErrors(f.ext) }
         \cup [ext : {".yaml"}, exists : {FALSE}, parse : {"ok"}, doc : {NullDoc}]

NoFile == [ext |-> "", exists |-> FALSE, parse |-> "ok", doc |-> NullDoc]

\* The document has a top-level key 'sops'.
HasSopsKey(d) == d.kind = "map" /\ "sops" \in d.keys

IsSubSeq(n, s) ==
    \E i \in 0 .. Len(s) : i + Len(n) <= Len(s) /\ SubSeq(s, i + 1, i + Len(n)) = n

\* Python's "x in d" is defined for mappings, lists and strings only.
PyIterable(d) == d.kind \in {"map", "list", "str"}

\* "'sops' in d": a key of a mapping, an item of a list, a substring of a string.
PyContainsSops(d) ==
    CASE d.kind = "map"  -> "sops" \in d.keys
      [] d.kind = "list" -> \E i \in 1 .. Len(d.items) : d.items[i] = "sops"
      [] d.kind = "str"  -> IsSubSeq(Chars("sops"), d.items)
      [] OTHER -> FALSE

\* The secret files of the calls made through registry_auth and cluster_auth:
\* one of each way decrypt_file and the Azure loader can go.
AuthFiles ==
    { [ext |-> ".yaml", exists |-> TRUE,  parse |-> "ok", doc |-> MapDoc({"sops", "data"})],
      [ext |-> ".json", exists |-> TRUE,  parse |-> "ok", doc |-> MapDoc({"data"})],
      [ext |-> ".yaml", exists |-> TRUE,  parse |-> "ok", doc |-> MapDoc(AzureKeys)],
      [ext |-> ".yaml", exists |-> TRUE,  parse |-> "ok", doc |-> MapDoc(AzureKeys \cup {"sops"})],
      [ext |-> ".yml",  exists |-> TRUE,  parse |-> "ScannerError", doc |-> NullDoc],
      [ext |-> ".txt",  exists |-> TRUE,  parse |-> "ok", doc |-> MapDoc({"data"})],
      [ext |-> ".yaml", exists |-> FALSE, parse |-> "ok", doc |-> NullDoc] }

(***************************************************************************)
(* The arguments of a call and the configuration get_config returns.       *)
(*   subtree   "present": config['images']['registry'] / config['cluster']  *)
(*             exists; "partial": 'images' without 'registry'; "absent"     *)
(*   provider  the value of .get('provider'), None when the key is missing  *)
(*   bag       the provider's parameter bag registry[provider]: "ok",       *)
(*             "missing" (no such key), "incomplete" (a required parameter  *)
(*             is not in it)                                                *)
(*   service_key, role_arn   the optional parameters of the aws bag         *)
(*   file      the secret file the bag names (service_key / auth_file)      *)
(***************************************************************************)
Providers == {"gcloud", "aws", "azure"}
ProviderTags == Providers \cup {"digitalocean", None}

ServiceKeys == {None, "", "aws-creds.cfg"}
RoleArns    == {None, "", "arn:aws:iam::123:role/x"}

Cfg(st, pr, bg, sk, ra, fl) ==
    [subtree |-> st, provider |-> pr, bag |-> bg,
     service_key |-> sk, role_arn |-> ra, file |-> fl]

NoCfg == Cfg("absent", None, "missing", None, None, NoFile)

\* The configurations whose subtree is present, with secret files from F.
Dispatched(F) ==
    { Cfg("present", pr, bg, None, None, NoFile) :
          pr \in Providers, bg \in {"missing", "incomplete"} }
    \cup { Cfg("present", pr, "ok", None, None, fl) :
          pr \in {"gcloud", "azure"}, fl \in F }
    \cup { Cfg("present", "aws", "ok", sk, ra, NoFile) :
          sk \in ServiceKeys, ra \in RoleArns }
    \cup { Cfg("present", pr, "missing", None, None, NoFile) :
          pr \in ProviderTags \ Providers }

WithArgs(en, pu, ch, cf) ==
    [entry |-> en, push |-> pu, check_registry |-> ch, config |-> cf]

NoCall == WithArgs("none", FALSE, FALSE, NoCfg)

\* 'images' without 'registry'.
PartialCfg == Cfg("partial", None, "missing", None, None, NoFile)

\* Without push and check_registry the configuration is never read.
RegistryCalls(F) ==
    { WithArgs("registry_auth", FALSE, FALSE, NoCfg) }
    \cup { WithArgs("registry_auth", a[1], a[2], cf) :
             a \in {<<TRUE, FALSE>>, <<FALSE, TRUE>>, <<TRUE, TRUE>>},
             cf \in Dispatched(F) \cup {NoCfg, PartialCfg} }

ClusterCalls(F) ==
    { WithArgs("cluster_auth", FALSE, FALSE, cf) : cf \in Dispatched(F) \cup { NoCfg } }

DecryptCalls(F) ==
    { WithArgs("decrypt_file", FALSE, FALSE, Cfg("absent", None, "missing", None, None, fl)) :
          fl \in F }

AuthCalls == RegistryCalls(AuthFiles) \cup ClusterCalls(AuthFiles) \cup DecryptCalls(AuthFiles)

(***************************************************************************)
(* State.                                                                  *)
(***************************************************************************)
VARIABLES
    env,        \* os.environ, restricted to EnvVars
    env0,       \* os.environ when the current call was made
    call,       \* the current call: its arguments and configuration
    pc,         \* the statement the call is at; "idle" before the first call
    exc,        \* the exception in flight (its class and what its message names)
    loc,        \* the local variables that hold the saved values
    tmp,        \* temp_kubeconfig.name and the decrypted file's name
    files,      \* the temporary files of decrypt_file that exist
    tmpCount,   \* how many temporary files the process has created
    cmds,       \* the external commands the call has run, in order
    yielded,    \* what decrypt_file yielded to its with-block, None before
    work,       \* how often the caller's with-block was entered in this call
    touched,    \* the environment variables the call has written or deleted
    docker,     \* the documents the call wrote to ~/.docker/config.json, in order
    log,        \* the other effects of the call, as a set of marks
    order,      \* the call's writes to the environment, in the order made
    stack       \* the calls whose with-block this call was entered in

vars == <<env, env0, call, pc, exc, loc, tmp, files, tmpCount, cmds, yielded,
          work, touched, docker, log, order, stack>>

\* No response of assume_role yet.
NoCreds == [k \in {} |-> ""]

NoLocals ==
    [original_credential_file_loc |-> Unbound,
     original_access_key_id       |-> Unbound,
     original_secret_access_key   |-> Unbound,
     original_session_token       |-> Unbound,
     orig_kubeconfig              |-> Unbound,
     creds                        |-> NoCreds]

NoTmp == [kubeconfig |-> None, decrypted |-> None]

\* An exception of class t whose message names a.
Exc(t, a) == [type |-> t, arg |-> a]
NoExc == Exc(None, None)

Fresh ==
    /\ exc = NoExc
    /\ loc = NoLocals
    /\ tmp = NoTmp
    /\ cmds = <<>>
    /\ yielded = None
    /\ work = 0
    /\ touched = {}
    /\ docker = <<>>
    /\ log = {}
    /\ order = <<>>

Init ==
    /\ env \in EnvStates
    /\ env0 = env
    /\ call = NoCall
    /\ pc = "idle"
    /\ files = {}
    /\ tmpCount = 0
    /\ stack = <<>>
    /\ Fresh

\* A with-statement is entered on registry_auth, cluster_auth or decrypt_file,
\* by a process that is not inside another one.
Enter(c) ==
    /\ pc = "idle"
    /\ tmpCount + 2 <= MaxTmp
    /\ call' = c
    /\ env0' = env
    /\ pc' = c.entry
    /\ exc' = NoExc
    /\ loc' = NoLocals
    /\ tmp' = NoTmp
    /\ cmds' = <<>>
    /\ yielded' = None
    /\ work' = 0
    /\ touched' = {}
    /\ docker' = <<>>
    /\ log' = {}
    /\ order' = <<>>
    /\ UNCHANGED <<env, files, tmpCount, stack>>

Call == \E c \in AuthCalls : Enter(c)

\* The with-statement is over: the call has returned or its exception has
\* reached the caller, and the process goes on outside of it.
Exit ==
    /\ pc = "done"
    /\ stack = <<>>
    /\ pc' = "idle"
    /\ call' = NoCall
    /\ env0' = env
    /\ exc' = NoExc
    /\ loc' = NoLocals
    /\ tmp' = NoTmp
    /\ cmds' = <<>>
    /\ yielded' = None
    /\ work' = 0
    /\ touched' = {}
    /\ docker' = <<>>
    /\ log' = {}
    /\ order' = <<>>
    /\ UNCHANGED <<env, files, tmpCount, stack>>

(***************************************************************************)
(* Where control goes.                                                     *)
(***************************************************************************)
\* Outer without the try / finally of cluster_auth around the dispatch.
Outer_no_finally == "done"

\* The handler around a strategy: cluster_auth's finally clause; registry_auth
\* and a direct decrypt_file have none, the exception reaches the caller.
Outer == IF call.entry = "cluster_auth" THEN "cluster_auth_finally" ELSE "done"

\* The branch of the if / elif chain taken for a supported provider: the first
\* statement of the strategy, or the exception raised on the way to it.
\* registry[provider] raises KeyError without the bag, and the call with **bag
\* raises TypeError when a required parameter is missing.
Strategy(entry, cf) ==
    CASE cf.bag = "missing"    -> [pc |-> Outer, exc |-> Exc("KeyError", cf.provider)]
      [] cf.bag = "incomplete" -> [pc |-> Outer, exc |-> Exc("TypeError", cf.provider)]
      [] OTHER ->
          [pc  |-> CASE cf.provider = "gcloud" -> "decrypt_file"
                     [] cf.provider = "azure"  -> "azure_open"
                     [] cf.provider = "aws"    ->
                          IF entry = "cluster_auth" THEN "cluster_auth_aws"
                                                    ELSE "registry_auth_aws",
           exc |-> NoExc]

\* Dispatch whose last branch is the gcloud strategy instead of the raise.
Dispatch_default_gcloud(entry, cf) ==
    IF cf.provider \in Providers
    THEN Strategy(entry, cf)
    ELSE [pc |-> "decrypt_file", exc |-> NoExc]

\* Provider dispatch (the if / elif chain on provider); any other tag raises
\* ValueError naming it.
Dispatch(entry, cf) ==
    IF cf.provider \in Providers
    THEN Strategy(entry, cf)
    ELSE [pc |-> Outer, exc |-> Exc("ValueError", cf.provider)]

(***************************************************************************)
(* registry_auth                                                           *)
(***************************************************************************)
\* registry_auth that reads the configuration before it looks at its flags.
registry_auth_config_first ==
    /\ pc = "registry_auth"
    /\ log' = log \cup {"get_config"}
    /\ IF call.push \/ call.check_registry
       THEN IF call.config.subtree = "present"
            THEN LET d == Dispatch("registry_auth", call.config)
                 IN  pc' = d.pc /\ exc' = d.exc
            ELSE pc' = "done" /\ exc' = Exc("RuntimeError", "generator didn't yield")
       ELSE pc' = "work" /\ UNCHANGED exc
    /\ UNCHANGED <<env, env0, call, loc, tmp, files, tmpCount, cmds, yielded,
                   work, touched, order, docker, stack>>

\* Lines 30-55.  Without push and check_registry the generator yields at once.
\* Otherwise the configuration is read and the provider dispatched on; when
\* there is no images.registry the generator ends without a yield, which
\* contextlib.contextmanager turns into RuntimeError("generator didn't yield").
registry_auth ==
    /\ pc = "registry_auth"
    /\ IF call.push \/ call.check_registry
       THEN /\ log' = log \cup {"get_config"}
            /\ IF call.config.subtree = "present"
               THEN LET d == Dispatch("registry_auth", call.config)
                    IN  pc' = d.pc /\ exc' = d.exc
               ELSE pc' = "done" /\ exc' = Exc("RuntimeError", "generator didn't yield")
       ELSE pc' = "work" /\ UNCHANGED <<exc, log>>
    /\ UNCHANGED <<env, env0, call, loc, tmp, files, tmpCount, cmds, yielded,
                   work, touched, order, docker, stack>>

(***************************************************************************)
(* cluster_auth                                                            *)
(***************************************************************************)
\* Lines 202-210: the configuration is read; with a 'cluster' subtree a
\* temporary kubeconfig file is created and KUBECONFIG's value is saved.
\* Without the subtree the generator ends without a yield.
cluster_auth ==
    /\ pc = "cluster_auth"
    /\ log' = log \cup {"get_config"}
    /\ IF call.config.subtree = "present"
       THEN /\ tmpCount' = tmpCount + 1
            /\ tmp' = [tmp EXCEPT !.kubeconfig = TmpName(tmpCount + 1)]
            /\ loc' = [loc EXCEPT !.orig_kubeconfig = EnvGet(env, "KUBECONFIG")]
            /\ pc' = "cluster_auth_try"
            /\ UNCHANGED exc
       ELSE /\ pc' = "done"
            /\ exc' = Exc("RuntimeError", "generator didn't yield")
            /\ UNCHANGED <<tmpCount, tmp, loc>>
    /\ UNCHANGED <<env, env0, call, files, cmds, yielded, work, touched, order,
                   docker, stack>>

\* cluster_auth_try without the assignment: the strategy runs with the
\* caller's KUBECONFIG.
cluster_auth_try_no_redirect ==
    /\ pc = "cluster_auth_try"
    /\ pc' = "cluster_auth_dispatch"
    /\ UNCHANGED <<env, env0, call, exc, loc, tmp, files, tmpCount, cmds,
                   yielded, work, touched, order, docker, log, stack>>

\* Line 213: os.environ["KUBECONFIG"] = temp_kubeconfig.name
cluster_auth_try ==
    /\ pc = "cluster_auth_try"
    /\ env' = EnvSet(env, "KUBECONFIG", tmp.kubeconfig)
    /\ touched' = touched \cup {"KUBECONFIG"}
    /\ order' = Append(order, <<"set", "KUBECONFIG">>)
    /\ pc' = "cluster_auth_dispatch"
    /\ UNCHANGED <<env0, call, exc, loc, tmp, files, tmpCount, cmds, yielded,
                   work, docker, log, stack>>

\* Lines 215-229.
cluster_auth_dispatch ==
    /\ pc = "cluster_auth_dispatch"
    /\ LET d == Dispatch("cluster_auth", call.config)
       IN  pc' = d.pc /\ exc' = d.exc
    /\ UNCHANGED <<env, env0, call, loc, tmp, files, tmpCount, cmds, yielded,
                   work, touched, order, docker, log, stack>>

\* A restore step of a finally clause: unset_env_var(env_var, old), then on to
\* next.  Reading a saved-value local that was never assigned raises
\* UnboundLocalError, and del os.environ[env_var] raises KeyError when the
\* variable is not set; either leaves the clause for the handler around it.
Restore(env_var, old, next, handler) ==
    IF old = Unbound
    THEN /\ exc' = Exc("UnboundLocalError", env_var)
         /\ pc' = handler
         /\ UNCHANGED <<env, touched, order>>
    ELSE IF env_var \notin DOMAIN env
    THEN /\ exc' = Exc("KeyError", env_var)
         /\ pc' = handler
         /\ UNCHANGED <<env, touched, order>>
    ELSE /\ env' = unset_env_var(env, env_var, old)
         /\ touched' = touched \cup {env_var}
         /\ order' = Append(order, <<"restore", env_var>>)
         /\ pc' = next
         /\ UNCHANGED exc

\* Line 231: finally: unset_env_var("KUBECONFIG", orig_kubeconfig)
cluster_auth_finally ==
    /\ pc = "cluster_auth_finally"
    /\ Restore("KUBECONFIG", loc.orig_kubeconfig, "done", "done")
    /\ UNCHANGED <<env0, call, loc, tmp, files, tmpCount, cmds, yielded, work,
                   docker, log, stack>>

(***************************************************************************)
(* The caller's with-block.                                                *)
(***************************************************************************)
\* AfterYield for aws strategies without a try / finally around their yield.
AfterYield_no_strategy_finally ==
    CASE call.entry = "decrypt_file" -> "decrypt_file_exit"
      [] call.entry = "registry_auth" /\ ~(call.push \/ call.check_registry) -> "done"
      [] OTHER -> Outer

\* Where the generator resumes after its yield: decrypt_file's with-exit, the
\* aws strategies' finally clause, or the end of the strategy.
AfterYield ==
    CASE call.entry = "decrypt_file" -> "decrypt_file_exit"
      [] call.entry = "registry_auth" /\ ~(call.push \/ call.check_registry) -> "done"
      [] call.config.provider = "aws" -> "aws_finally"
      [] OTHER -> Outer

\* The block runs once and returns or raises; it does not touch the
\* environment.  What it raises is thrown into the generator at the yield.
Work ==
    /\ pc = "work"
    /\ work' = work + 1
    /\ \E raised \in BOOLEAN :
          exc' = IF raised THEN Exc("WorkError", "work") ELSE NoExc
    /\ pc' = AfterYield
    /\ UNCHANGED <<env, env0, call, loc, tmp, files, tmpCount, cmds, yielded,
                   touched, order, docker, log, stack>>

(***************************************************************************)
(* External commands (subprocess.check_call).                              *)
(***************************************************************************)
\* Run that tries a command that exited non-zero a second time before it
\* gives up.
Run_retry(name, next, handler) ==
    \E ok \in BOOLEAN :
        IF ok THEN /\ cmds' = Append(cmds, name)
                   /\ pc' = next
                   /\ UNCHANGED exc
              ELSE /\ cmds' = Append(Append(cmds, name), name)
                   /\ pc' = handler
                   /\ exc' = Exc("CalledProcessError", name)

\* The command runs and exits zero, or exits non-zero and check_call raises
\* CalledProcessError.
Run(name, next, handler) ==
    /\ cmds' = Append(cmds, name)
    /\ \E ok \in BOOLEAN :
          IF ok THEN pc' = next /\ UNCHANGED exc
                ELSE pc' = handler /\ exc' = Exc("CalledProcessError", name)

(***************************************************************************)
(* decrypt_file                                                            *)
(***************************************************************************)
\* The with-block decrypt_file yields to: the caller's block, or lines 67-71 /
\* 244-248 of the gcloud strategies.
Body == IF call.entry = "decrypt_file" THEN "work" ELSE "gcloud_activate"

\* The parser errors decrypt_file catches for an extension (lines 386, 392).
Caught(ext) ==
    CASE ext \in {".yaml", ".yml"} -> {"ScannerError"}
      [] ext = ".json"             -> {"JSONDecodeError"}
      [] OTHER                     -> {}

\* Parsed with a final else branch that loads any other file as YAML.
Parsed_any(ext) == TRUE

\* The extensions decrypt_file parses (lines 383, 389).
Parsed(ext) == ext \in {".yaml", ".yml", ".json"}

\* Line 380: open(encrypted_path)
decrypt_file ==
    /\ pc = "decrypt_file"
    /\ IF call.config.file.exists
       THEN pc' = "decrypt_file_parse" /\ UNCHANGED exc
       ELSE pc' = Outer /\ exc' = Exc("FileNotFoundError", "encrypted_path")
    /\ UNCHANGED <<env, env0, call, loc, tmp, files, tmpCount, cmds, yielded,
                   work, touched, order, docker, log, stack>>

\* Lines 381-394: the file is parsed by its extension.  A caught parser error
\* yields the path as it is; any other parser error leaves decrypt_file; a
\* file of another extension is not parsed and encrypted_data stays unbound.
decrypt_file_parse ==
    /\ pc = "decrypt_file_parse"
    /\ LET f == call.config.file IN
       IF Parsed(f.ext) /\ f.parse # "ok"
       THEN IF f.parse \in Caught(f.ext)
            THEN yielded' = "encrypted_path" /\ pc' = Body /\ UNCHANGED exc
            ELSE pc' = Outer /\ exc' = Exc(f.parse, "encrypted_path") /\ UNCHANGED yielded
       ELSE pc' = "decrypt_file_check" /\ UNCHANGED <<exc, yielded>>
    /\ UNCHANGED <<env, env0, call, loc, tmp, files, tmpCount, cmds, work,
                   touched, order, docker, log, stack>>

\* Lines 396-398: if 'sops' not in encrypted_data: yield encrypted_path
decrypt_file_check ==
    /\ pc = "decrypt_file_check"
    /\ LET f == call.config.file IN
       IF ~Parsed(f.ext)
       THEN pc' = Outer /\ exc' = Exc("UnboundLocalError", "encrypted_data")
            /\ UNCHANGED yielded
       ELSE IF ~PyIterable(f.doc)
       THEN pc' = Outer /\ exc' = Exc("TypeError", f.doc.kind) /\ UNCHANGED yielded
       ELSE IF ~PyContainsSops(f.doc)
       THEN yielded' = "encrypted_path" /\ pc' = Body /\ UNCHANGED exc
       ELSE pc' = "decrypt_file_tempfile" /\ UNCHANGED <<exc, yielded>>
    /\ UNCHANGED <<env, env0, call, loc, tmp, files, tmpCount, cmds, work,
                   touched, order, docker, log, stack>>

\* Line 401: with tempfile.NamedTemporaryFile() as f
decrypt_file_tempfile ==
    /\ pc = "decrypt_file_tempfile"
    /\ tmpCount' = tmpCount + 1
    /\ tmp' = [tmp EXCEPT !.decrypted = TmpName(tmpCount + 1)]
    /\ files' = files \cup {TmpName(tmpCount + 1)}
    /\ pc' = "decrypt_file_sops"
    /\ UNCHANGED <<env, env0, call, exc, loc, cmds, yielded, work, touched,
                   order, docker, log, stack>>

\* Lines 402-407: sops --output f.name --decrypt encrypted_path; yield f.name
decrypt_file_sops ==
    /\ pc = "decrypt_file_sops"
    /\ Run("sops", Body, "decrypt_file_exit")
    /\ yielded' = IF pc' = Body THEN tmp.decrypted ELSE yielded
    /\ UNCHANGED <<env, env0, call, loc, tmp, files, tmpCount, work, touched,
                   order, docker, log, stack>>

\* The temporary files left when the with-statement of line 401 is left for
\* good only when no exception is in flight.
TempClose_on_success_only(fs, name, e) ==
    IF e = NoExc THEN fs \ {name} ELSE fs

\* Leaving the with-statement of line 401 closes the NamedTemporaryFile, which
\* deletes it, whether the block returned or raised.
TempClose(fs, name, e) == fs \ {name}

\* Where the code that entered decrypt_file goes on after its with-statement.
AfterDecrypt ==
    CASE call.entry = "decrypt_file"  -> "done"
      [] call.entry = "registry_auth" -> "gcloud_configure_docker"
      [] OTHER                        -> "gcloud_get_credentials"

\* The with-block has ended: decrypt_file is resumed after its yield (lines
\* 388, 394, 398, 407) or left by the exception in flight.
decrypt_file_exit ==
    /\ pc = "decrypt_file_exit"
    /\ files' = TempClose(files, tmp.decrypted, exc)
    /\ pc' = IF exc = NoExc THEN AfterDecrypt ELSE Outer
    /\ UNCHANGED <<env, env0, call, exc, loc, tmp, tmpCount, cmds, yielded,
                   work, touched, order, docker, log, stack>>

(***************************************************************************)
(* registry_auth_gcloud, cluster_auth_gcloud                               *)
(***************************************************************************)
\* Lines 67-71 and 244-248: gcloud auth activate-service-account --key-file
gcloud_activate ==
    /\ pc = "gcloud_activate"
    /\ Run("gcloud auth activate-service-account", "decrypt_file_exit", "decrypt_file_exit")
    /\ UNCHANGED <<env, env0, call, loc, tmp, files, tmpCount, yielded, work,
                   touched, order, docker, log, stack>>

\* Lines 73-77: gcloud auth configure-docker; yield
gcloud_configure_docker ==
    /\ pc = "gcloud_configure_docker"
    /\ Run("gcloud auth configure-docker", "work", Outer)
    /\ UNCHANGED <<env, env0, call, loc, tmp, files, tmpCount, yielded, work,
                   touched, order, docker, log, stack>>

\* Lines 250-257: gcloud container clusters get-credentials; yield
gcloud_get_credentials ==
    /\ pc = "gcloud_get_credentials"
    /\ Run("gcloud container clusters get-credentials", "work", Outer)
    /\ UNCHANGED <<env, env0, call, loc, tmp, files, tmpCount, yielded, work,
                   touched, order, docker, log, stack>>

(***************************************************************************)
(* registry_auth_aws, cluster_auth_aws                                     *)
(***************************************************************************)
\* Truthy as the test "is not None": an empty string counts as given.
Truthy_is_not_none(x) == x # None

\* Python's truth value of an optional string parameter.
Truthy(x) == x \notin {None, ""}

\* The deployment a call is made for: a call entered inside another call's
\* with-block is for another deployment than that one.
Deployment == "d" \o ToString(Len(stack))

\* Lines 96 and 274: os.path.join('deployments', deployment, 'secrets', service_key)
ServiceKeyPath == "deployments/" \o Deployment \o "/secrets/aws-creds.cfg"

\* The credentials of the assumed role; every session has its own.
Creds ==
    [AccessKeyId     |-> "ASIAKEY-" \o Deployment,
     SecretAccessKey |-> "secret-" \o Deployment,
     SessionToken    |-> "token-" \o Deployment]

\* response['Credentials'] of a call of assume_role that returns: the three
\* credentials, or a mapping that lacks one of the last two.
CredsResponses ==
    { [k \in DOMAIN Creds \ lacks |-> Creds[k]] :
          lacks \in {{}, {"SecretAccessKey"}, {"SessionToken"}} }

\* ~/.docker/config.json as JSON: whether it has a credHelpers key, the
\* credHelpers mapping, and whether it has other top-level keys.
RegistryHost == "project.dkr.ecr.zone.amazonaws.com"

NoHelpers == [h \in {} |-> ""]

DockerDoc(has, hs, other) == [hasHelpers |-> has, helpers |-> hs, other |-> other]

\* What the file may hold before the call.
DockerDocs ==
    { DockerDoc(FALSE, NoHelpers, FALSE),
      DockerDoc(FALSE, NoHelpers, TRUE),
      DockerDoc(TRUE, [h \in {"gcr.io"} |-> "gcloud"], TRUE),
      DockerDoc(TRUE, [h \in {RegistryHost} |-> "other-helper"], FALSE),
      DockerDoc(TRUE, [h \in {"gcr.io", RegistryHost} |->
                          IF h = RegistryHost THEN "ecr-login" ELSE "gcloud"], TRUE) }

\* ~/.docker/config.json before the call: absent, or a file holding a document.
DockerFiles ==
    { [exists |-> FALSE, doc |-> DockerDoc(FALSE, NoHelpers, FALSE)] }
    \cup { [exists |-> TRUE, doc |-> d] : d \in DockerDocs }

\* Lines 113-117: the document of an existing file, and {} without the file.
DockerRead(file) ==
    IF file.exists THEN file.doc ELSE DockerDoc(FALSE, NoHelpers, FALSE)

\* The merge as an assignment of a new credHelpers mapping.
DockerMerge_overwrite(config, registry) ==
    [config EXCEPT !.hasHelpers = TRUE,
                   !.helpers = [h \in {registry} |-> "ecr-login"]]

\* Line 119: config.setdefault('credHelpers', {})[registry] = 'ecr-login'
DockerMerge(config, registry) ==
    [config EXCEPT !.hasHelpers = TRUE,
                   !.helpers = EnvSet(config.helpers, registry, "ecr-login")]

\* Lines 87-88 and the branch of line 93.
registry_auth_aws ==
    /\ pc = "registry_auth_aws"
    /\ LET sk == call.config.service_key
           ra == call.config.role_arn
       IN  IF ~Truthy(sk) /\ ~Truthy(ra)
           THEN pc' = Outer /\ exc' = Exc("Exception", "neither service key nor role")
           ELSE /\ pc' = IF Truthy(sk) THEN "registry_auth_aws_isfile" ELSE "aws_assume_role"
                /\ UNCHANGED exc
    /\ UNCHANGED <<env, env0, call, loc, tmp, files, tmpCount, cmds, yielded,
                   work, touched, order, docker, log, stack>>

\* Lines 267-268 and the branch of line 271.
cluster_auth_aws ==
    /\ pc = "cluster_auth_aws"
    /\ LET sk == call.config.service_key
           ra == call.config.role_arn
       IN  IF ~Truthy(sk) /\ ~Truthy(ra)
           THEN pc' = Outer /\ exc' = Exc("Exception", "neither service key nor role")
           ELSE /\ pc' = IF Truthy(sk) THEN "aws_save_cred" ELSE "aws_assume_role"
                /\ UNCHANGED exc
    /\ UNCHANGED <<env, env0, call, loc, tmp, files, tmpCount, cmds, yielded,
                   work, touched, order, docker, log, stack>>

\* Lines 99-101: the service key file must exist.
registry_auth_aws_isfile ==
    /\ pc = "registry_auth_aws_isfile"
    /\ \E isfile \in BOOLEAN :
          IF isfile THEN pc' = "aws_save_cred" /\ UNCHANGED exc
                    ELSE pc' = "aws_finally" /\ exc' = Exc("FileNotFoundError", "service_key_path")
    /\ UNCHANGED <<env, env0, call, loc, tmp, files, tmpCount, cmds, yielded,
                   work, touched, order, docker, log, stack>>

\* Lines 103 and 277: the value of AWS_SHARED_CREDENTIALS_FILE is saved.
aws_save_cred ==
    /\ pc = "aws_save_cred"
    /\ loc' = [loc EXCEPT !.original_credential_file_loc =
                              EnvGet(env, "AWS_SHARED_CREDENTIALS_FILE")]
    /\ pc' = "aws_set_cred"
    /\ UNCHANGED <<env, env0, call, exc, tmp, files, tmpCount, cmds, yielded,
                   work, touched, order, docker, log, stack>>

\* Lines 106 and 280: os.environ["AWS_SHARED_CREDENTIALS_FILE"] = service_key_path
aws_set_cred ==
    /\ pc = "aws_set_cred"
    /\ env' = EnvSet(env, "AWS_SHARED_CREDENTIALS_FILE", ServiceKeyPath)
    /\ touched' = touched \cup {"AWS_SHARED_CREDENTIALS_FILE"}
    /\ order' = Append(order, <<"set", "AWS_SHARED_CREDENTIALS_FILE">>)
    /\ pc' = IF call.entry = "cluster_auth" THEN "aws_update_kubeconfig"
                                            ELSE "registry_auth_aws_docker"
    /\ UNCHANGED <<env0, call, exc, loc, tmp, files, tmpCount, cmds, yielded,
                   work, docker, log, stack>>

\* Lines 110-121 and the yield of line 143: the docker configuration is read
\* (a file that is not JSON raises), merged and written back (a file that
\* cannot be opened for writing raises).  docker records what was read and
\* what was written.
registry_auth_aws_docker ==
    /\ pc = "registry_auth_aws_docker"
    /\ \/ \E file \in DockerFiles :
            /\ docker' = Append(docker,
                                [file    |-> file,
                                 written |-> DockerMerge(DockerRead(file), RegistryHost)])
            /\ pc' = "work"
            /\ UNCHANGED exc
       \/ /\ exc' = Exc("JSONDecodeError", "docker_config")
          /\ pc' = "aws_finally"
          /\ UNCHANGED docker
       \/ /\ exc' = Exc("PermissionError", "docker_config")
          /\ pc' = "aws_finally"
          /\ UNCHANGED docker
    /\ UNCHANGED <<env, env0, call, loc, tmp, files, tmpCount, cmds, yielded,
                   work, touched, order, log, stack>>

\* Lines 127-131 and 286-290: sts_client.assume_role(...)
aws_assume_role ==
    /\ pc = "aws_assume_role"
    /\ log' = log \cup {"assume_role"}
    /\ \/ \E response \in CredsResponses :
            /\ loc' = [loc EXCEPT !.creds = response]
            /\ pc' = "aws_save_role"
            /\ UNCHANGED exc
       \/ /\ exc' = Exc("ClientError", "assume_role")
          /\ pc' = "aws_finally"
          /\ UNCHANGED loc
    /\ UNCHANGED <<env, env0, call, tmp, files, tmpCount, cmds, yielded,
                   work, touched, order, docker, stack>>

\* Lines 134-136 and 292-294: the values of the three variables are saved.
aws_save_role ==
    /\ pc = "aws_save_role"
    /\ loc' = [loc EXCEPT
                 !.original_access_key_id     = EnvGet(env, "AWS_ACCESS_KEY_ID"),
                 !.original_secret_access_key = EnvGet(env, "AWS_SECRET_ACCESS_KEY"),
                 !.original_session_token     = EnvGet(env, "AWS_SESSION_TOKEN")]
    /\ pc' = "aws_set_key_id"
    /\ UNCHANGED <<env, env0, call, exc, tmp, files, tmpCount, cmds, yielded,
                   work, touched, order, docker, log, stack>>

\* Export as a statement placed before the try: a failed lookup skips the
\* finally clause of the strategy.
Export_outside_try(env_var, key, next) ==
    /\ IF key \in DOMAIN loc.creds
       THEN /\ env' = EnvSet(env, env_var, loc.creds[key])
            /\ touched' = touched \cup {env_var}
            /\ order' = Append(order, <<"set", env_var>>)
            /\ pc' = next
            /\ UNCHANGED exc
       ELSE /\ exc' = Exc("KeyError", key)
            /\ pc' = Outer
            /\ UNCHANGED <<env, touched, order>>
    /\ UNCHANGED <<env0, call, loc, tmp, files, tmpCount, cmds, yielded,
                   work, docker, log, stack>>

\* os.environ[env_var] = creds[key], then on to next; the lookup raises
\* KeyError when the response lacks the key, inside the try of lines 92 / 270.
Export(env_var, key, next) ==
    /\ IF key \in DOMAIN loc.creds
       THEN /\ env' = EnvSet(env, env_var, loc.creds[key])
            /\ touched' = touched \cup {env_var}
            /\ order' = Append(order, <<"set", env_var>>)
            /\ pc' = next
            /\ UNCHANGED exc
       ELSE /\ exc' = Exc("KeyError", key)
            /\ pc' = "aws_finally"
            /\ UNCHANGED <<env, touched, order>>
    /\ UNCHANGED <<env0, call, loc, tmp, files, tmpCount, cmds, yielded,
                   work, docker, log, stack>>

\* Lines 139 and 297.
aws_set_key_id ==
    /\ pc = "aws_set_key_id"
    /\ Export("AWS_ACCESS_KEY_ID", "AccessKeyId", "aws_set_secret")

\* Lines 140 and 298.
aws_set_secret ==
    /\ pc = "aws_set_secret"
    /\ Export("AWS_SECRET_ACCESS_KEY", "SecretAccessKey", "aws_set_token")

\* Lines 141 and 299; then the yield of line 143, or line 301.
aws_set_token ==
    /\ pc = "aws_set_token"
    /\ Export("AWS_SESSION_TOKEN", "SessionToken",
              IF call.entry = "cluster_auth" THEN "aws_update_kubeconfig" ELSE "work")

\* Lines 301-306: aws eks update-kubeconfig; yield
aws_update_kubeconfig ==
    /\ pc = "aws_update_kubeconfig"
    /\ Run("aws eks update-kubeconfig", "work", "aws_finally")
    /\ UNCHANGED <<env, env0, call, loc, tmp, files, tmpCount, yielded, work,
                   touched, order, docker, log, stack>>

\* aws_finally that tests role_arn first, unlike the setup.
aws_finally_role_first ==
    /\ pc = "aws_finally"
    /\ log' = log \cup {"aws_finally"}
    /\ IF ~Truthy(call.config.role_arn)
       THEN Restore("AWS_SHARED_CREDENTIALS_FILE", loc.original_credential_file_loc,
                    Outer, Outer)
       ELSE Restore("AWS_ACCESS_KEY_ID", loc.original_access_key_id,
                    "aws_unset_secret", Outer)
    /\ UNCHANGED <<env0, call, loc, tmp, files, tmpCount, cmds, yielded, work,
                   docker, stack>>

\* Lines 145-151 and 308-314: the finally clause, up to its first restore.
aws_finally ==
    /\ pc = "aws_finally"
    /\ log' = log \cup {"aws_finally"}
    /\ IF Truthy(call.config.service_key)
       THEN Restore("AWS_SHARED_CREDENTIALS_FILE", loc.original_credential_file_loc,
                    Outer, Outer)
       ELSE Restore("AWS_ACCESS_KEY_ID", loc.original_access_key_id,
                    "aws_unset_secret", Outer)
    /\ UNCHANGED <<env0, call, loc, tmp, files, tmpCount, cmds, yielded, work,
                   docker, stack>>

\* Lines 152 and 315.
aws_unset_secret ==
    /\ pc = "aws_unset_secret"
    /\ Restore("AWS_SECRET_ACCESS_KEY", loc.original_secret_access_key,
               "aws_unset_token", Outer)
    /\ UNCHANGED <<env0, call, loc, tmp, files, tmpCount, cmds, yielded, work,
                   docker, log, stack>>

\* Lines 153 and 316.
aws_unset_token ==
    /\ pc = "aws_unset_token"
    /\ Restore("AWS_SESSION_TOKEN", loc.original_session_token, Outer, Outer)
    /\ UNCHANGED <<env0, call, loc, tmp, files, tmpCount, cmds, yielded, work,
                   docker, log, stack>>

(***************************************************************************)
(* registry_auth_azure, cluster_auth_azure                                 *)
(***************************************************************************)
\* Lines 176-177 and 338-339: open(auth_file_path)
azure_open ==
    /\ pc = "azure_open"
    /\ IF call.config.file.exists
       THEN pc' = "azure_load" /\ UNCHANGED exc
       ELSE pc' = Outer /\ exc' = Exc("FileNotFoundError", "auth_file_path")
    /\ UNCHANGED <<env, env0, call, loc, tmp, files, tmpCount, cmds, yielded,
                   work, touched, order, docker, log, stack>>

\* Lines 178 and 340: auth = yaml.load(f); a parser error is not caught.
azure_load ==
    /\ pc = "azure_load"
    /\ IF call.config.file.parse = "ok"
       THEN pc' = "azure_login" /\ UNCHANGED exc
       ELSE pc' = Outer /\ exc' = Exc(call.config.file.parse, "auth_file_path")
    /\ UNCHANGED <<env, env0, call, loc, tmp, files, tmpCount, cmds, yielded,
                   work, touched, order, docker, log, stack>>

\* Lines 181-186 and 343-348: auth['appId'], auth['tenant'], auth['password']
\* are looked up and az login --service-principal is run.
azure_login ==
    /\ pc = "azure_login"
    /\ LET d == call.config.file.doc IN
       IF d.kind = "map" /\ AzureKeys \subseteq d.keys
       THEN Run("az login", IF call.entry = "cluster_auth"
                            THEN "azure_aks_get_credentials"
                            ELSE "azure_acr_login", Outer)
       ELSE /\ exc' = Exc(IF d.kind = "map" THEN "KeyError" ELSE "TypeError", "auth")
            /\ pc' = Outer
            /\ UNCHANGED cmds
    /\ UNCHANGED <<env, env0, call, loc, tmp, files, tmpCount, yielded, work,
                   touched, order, docker, log, stack>>

\* Lines 189-194: az acr login; yield
azure_acr_login ==
    /\ pc = "azure_acr_login"
    /\ Run("az acr login", "work", Outer)
    /\ UNCHANGED <<env, env0, call, loc, tmp, files, tmpCount, yielded, work,
                   touched, order, docker, log, stack>>

\* Lines 351-357: az aks get-credentials; yield
azure_aks_get_credentials ==
    /\ pc = "azure_aks_get_credentials"
    /\ Run("az aks get-credentials", "work", Outer)
    /\ UNCHANGED <<env, env0, call, loc, tmp, files, tmpCount, yielded, work,
                   touched, order, docker, log, stack>>

(***************************************************************************)
(* A with-statement inside the with-block of another.                      *)
(***************************************************************************)
MaxNest == 1

\* What a call resumes with when a call entered in its with-block is over.
Frame ==
    [call |-> call, env0 |-> env0, loc |-> loc, tmp |-> tmp, cmds |-> cmds,
     yielded |-> yielded, work |-> work, touched |-> touched,
     docker |-> docker, log |-> log, order |-> order]

\* How the call that is over went, as a mark for the log of the call around
\* it: its setup failed, or its block was entered and raised or returned.
Outcomes == {"inner_failed", "inner_raised", "inner_returned"}

Outcome ==
    CASE work = 0    -> "inner_failed"
      [] exc # NoExc -> "inner_raised"
      [] OTHER       -> "inner_returned"

\* The with-block of registry_auth or cluster_auth, suspended at its yield,
\* enters a with-statement on call c.
Nest(c) ==
    /\ pc = "work"
    /\ call.entry \in {"registry_auth", "cluster_auth"}
    /\ Len(stack) < MaxNest
    /\ tmpCount + 2 <= MaxTmp
    /\ stack' = Append(stack, Frame)
    /\ call' = c
    /\ env0' = env
    /\ pc' = c.entry
    /\ exc' = NoExc
    /\ loc' = NoLocals
    /\ tmp' = NoTmp
    /\ cmds' = <<>>
    /\ yielded' = None
    /\ work' = 0
    /\ touched' = {}
    /\ docker' = <<>>
    /\ log' = {}
    /\ order' = <<>>
    /\ UNCHANGED <<env, files, tmpCount>>

\* The inner with-statement is over; the block around it goes on, and returns
\* or raises later (Work), whatever the inner statement did.
Unnest ==
    /\ pc = "done"
    /\ stack # <<>>
    /\ LET outer == stack[Len(stack)]
       IN  /\ call' = outer.call
           /\ env0' = outer.env0
           /\ loc' = outer.loc
           /\ tmp' = outer.tmp
           /\ cmds' = outer.cmds
           /\ yielded' = outer.yielded
           /\ work' = outer.work
           /\ touched' = outer.touched
           /\ docker' = outer.docker
           /\ order' = outer.order
           /\ log' = (outer.log \ Outcomes) \cup {Outcome}
    /\ stack' = SubSeq(stack, 1, Len(stack) - 1)
    /\ pc' = "work"
    /\ exc' = NoExc
    /\ UNCHANGED <<env, files, tmpCount>>

(***************************************************************************)
(* Specifications.                                                         *)
(***************************************************************************)
Steps ==
    \/ registry_auth
    \/ cluster_auth \/ cluster_auth_try \/ cluster_auth_dispatch \/ cluster_auth_finally
    \/ decrypt_file \/ decrypt_file_parse \/ decrypt_file_check
    \/ decrypt_file_tempfile \/ decrypt_file_sops \/ decrypt_file_exit
    \/ gcloud_activate \/ gcloud_configure_docker \/ gcloud_get_credentials
    \/ registry_auth_aws \/ cluster_auth_aws \/ registry_auth_aws_isfile
    \/ aws_save_cred \/ aws_set_cred \/ registry_auth_aws_docker
    \/ aws_assume_role \/ aws_save_role
    \/ aws_set_key_id \/ aws_set_secret \/ aws_set_token
    \/ aws_update_kubeconfig
    \/ aws_finally \/ aws_unset_secret \/ aws_unset_token
    \/ azure_open \/ azure_load \/ azure_login
    \/ azure_acr_login \/ azure_aks_get_credentials
    \/ Work

Next == Call \/ Steps \/ Exit

\* Calls of registry_auth, cluster_auth and decrypt_file from every state of
\* the five environment variables.
Spec == Init /\ [][Next]_vars

\* Calls that reach decrypt_file (directly, or through the gcloud strategies)
\* on every secret file of Files, from an empty and from a full environment.
GcloudCfg(fl) == Cfg("present", "gcloud", "ok", None, None, fl)

SecretCalls ==
    DecryptCalls(Files)
    \cup { WithArgs("registry_auth", TRUE, FALSE, GcloudCfg(fl)) : fl \in Files }
    \cup { WithArgs("cluster_auth", FALSE, FALSE, GcloudCfg(fl)) : fl \in Files }

SecretCall == \E c \in SecretCalls : Enter(c)

SecretInit ==
    /\ Init
    /\ DOMAIN env \in {{}, EnvVars}
    /\ \A v \in DOMAIN env : env[v] = "orig"

SecretNext ==
    \/ SecretCall
    \/ registry_auth
    \/ cluster_auth \/ cluster_auth_try \/ cluster_auth_dispatch \/ cluster_auth_finally
    \/ decrypt_file \/ decrypt_file_parse \/ decrypt_file_check
    \/ decrypt_file_tempfile \/ decrypt_file_sops \/ decrypt_file_exit
    \/ gcloud_activate \/ gcloud_configure_docker \/ gcloud_get_credentials
    \/ Work
    \/ Exit

DecryptSpec == SecretInit /\ [][SecretNext]_vars

\* Calls of the aws strategies, by service key or by role, that may be entered
\* in one another's with-block, from an empty and from a full environment.
NestCalls ==
    { WithArgs(en, en = "registry_auth", FALSE,
               Cfg("present", "aws", "ok", a[1], a[2], NoFile)) :
          en \in {"registry_auth", "cluster_auth"},
          a \in {<<"aws-creds.cfg", None>>, <<None, "arn:aws:iam::123:role/x">>} }

NestCall == \E c \in NestCalls : Enter(c)

NestInner == \E c \in NestCalls : Nest(c)

NestNext ==
    \/ NestCall \/ NestInner \/ Unnest
    \/ registry_auth
    \/ cluster_auth \/ cluster_auth_try \/ cluster_auth_dispatch \/ cluster_auth_finally
    \/ registry_auth_aws \/ cluster_auth_aws \/ registry_auth_aws_isfile
    \/ aws_save_cred \/ aws_set_cred \/ registry_auth_aws_docker
    \/ aws_assume_role \/ aws_save_role
    \/ aws_set_key_id \/ aws_set_secret \/ aws_set_token
    \/ aws_update_kubeconfig
    \/ aws_finally \/ aws_unset_secret \/ aws_unset_token
    \/ Work
    \/ Exit

NestSpec == SecretInit /\ [][NestNext]_vars

(***************************************************************************)
(* Properties.                                                             *)
(***************************************************************************)
Cf == call.config

ViaAuth == call.entry \in {"registry_auth", "cluster_auth"}

\* The call has returned to its caller or raised to it.
Done == pc = "done"

\* The variables the entry point itself may write besides the strategy.
PointerVars == IF call.entry = "cluster_auth" THEN {"KUBECONFIG"} ELSE {}

AwsVars == EnvVars \ {"KUBECONFIG"}

\* C1: for registry_auth and cluster_auth, every provider variant and every
\* prior state of the five variables, once the caller's block has run (setup
\* succeeded) and has returned or raised, and the call is over, every variable
\* has its pre-call value and a variable that was absent is absent.
C1_EnvRestoredAfterWork ==
    (Done /\ ViaAuth /\ work = 1) => env = env0

\* cluster_auth with an assumed role, from an environment with none of the
\* variables, whose block raised: all four variables were written and the
\* call is over.
C1_Witness ==
    /\ Done /\ call.entry = "cluster_auth" /\ Cf.provider = "aws"
    /\ Cf.service_key = None /\ Cf.role_arn # None
    /\ work = 1 /\ exc.type = "WorkError"
    /\ DOMAIN env0 = {}
    /\ touched = AwsRoleVars \cup {"KUBECONFIG"}

\* C2: in cluster_auth with a 'cluster' subtree, at provider dispatch
\* KUBECONFIG names the call's new temporary file, which is no value a
\* variable held before the call; and whenever an error of dispatch or setup
\* reaches the caller, KUBECONFIG has its pre-call value or is absent as before.
C2_KubeconfigRestoredOnDispatchError ==
    (call.entry = "cluster_auth" /\ Cf.subtree = "present") =>
        /\ pc = "cluster_auth_dispatch" =>
              /\ EnvGet(env, "KUBECONFIG") = tmp.kubeconfig
              /\ tmp.kubeconfig # None
              /\ \A v \in EnvVars : EnvGet(env0, v) # tmp.kubeconfig
        /\ (Done /\ work = 0) =>
              /\ exc # NoExc
              /\ EnvGet(env, "KUBECONFIG") = EnvGet(env0, "KUBECONFIG")

\* A failed role assumption in cluster_auth has reached the caller, from an
\* environment in which KUBECONFIG was set.
C2_Witness ==
    /\ Done /\ call.entry = "cluster_auth" /\ work = 0
    /\ "assume_role" \in log /\ exc # NoExc
    /\ "KUBECONFIG" \in DOMAIN env0
    /\ "KUBECONFIG" \in touched

\* C3: registry_auth with push or check_registry and a configuration without
\* images.registry raises nothing, runs no command, changes nothing and runs
\* the caller's block exactly once.
C3_MissingRegistryIsNoOp ==
    (Done /\ call.entry = "registry_auth" /\ (call.push \/ call.check_registry)
          /\ Cf.subtree # "present") =>
        /\ exc = NoExc
        /\ work = 1
        /\ cmds = <<>>
        /\ touched = {}
        /\ env = env0

\* The provider tag that is dispatched on is none of gcloud, aws, azure.
UnknownTag == ViaAuth /\ Cf.subtree = "present" /\ Cf.provider \notin Providers

\* C4 as stated: with an unknown or missing provider tag the error names the
\* bad value, the block never runs, no command is run and no environment
\* variable, KUBECONFIG included, is written at any point of the call.
C4_UnknownTagNoMutation ==
    UnknownTag =>
        /\ work = 0
        /\ cmds = <<>>
        /\ touched = {}
        /\ Done => exc = Exc("ValueError", Cf.provider)

\* C4 amended: with an unknown or missing provider tag the error is a
\* ValueError naming the bad value, the block never runs, no command is run,
\* registry_auth writes no variable, cluster_auth writes KUBECONFIG only, and
\* when the error reaches the caller the environment is as before the call.
C4_UnknownTagOnlyKubeconfig ==
    UnknownTag =>
        /\ work = 0
        /\ cmds = <<>>
        /\ touched \subseteq PointerVars
        /\ Done => (exc = Exc("ValueError", Cf.provider) /\ env = env0)

\* cluster_auth has raised for the tag "digitalocean" after redirecting and
\* restoring KUBECONFIG.
C4_Witness ==
    /\ Done /\ call.entry = "cluster_auth" /\ Cf.subtree = "present"
    /\ Cf.provider = "digitalocean"
    /\ exc = Exc("ValueError", "digitalocean")
    /\ touched = {"KUBECONFIG"}

\* The aws strategy is called with neither a service key nor a role.
Neither ==
    /\ ViaAuth /\ Cf.subtree = "present" /\ Cf.provider = "aws" /\ Cf.bag = "ok"
    /\ Cf.service_key \in {None, ""} /\ Cf.role_arn \in {None, ""}

\* C5: registry_auth_aws and cluster_auth_aws with service key and role both
\* absent or empty raise before the strategy changes anything: no AWS variable
\* is written, the docker configuration is not written, no role is assumed,
\* no command is run, the strategy's finally clause does not run and the
\* caller's block never runs.
C5_NeitherRaisesBeforeMutation ==
    Neither =>
        /\ touched \cap AwsVars = {}
        /\ docker = <<>>
        /\ "assume_role" \notin log
        /\ cmds = <<>>
        /\ "aws_finally" \notin log
        /\ work = 0
        /\ pc \notin {"registry_auth", "cluster_auth", "cluster_auth_try",
                      "cluster_auth_dispatch", "registry_auth_aws", "cluster_auth_aws"}
              => exc.type = "Exception"

\* registry_auth_aws was called with an empty service key and no role, and its
\* error has reached the caller.
C5_Witness ==
    /\ Done /\ Neither /\ call.entry = "registry_auth"
    /\ Cf.service_key = "" /\ Cf.role_arn = None
    /\ exc.type = "Exception"

\* The aws strategy is called with a service key and a role.
Both ==
    /\ ViaAuth /\ Cf.subtree = "present" /\ Cf.provider = "aws" /\ Cf.bag = "ok"
    /\ Cf.service_key \notin {None, ""} /\ Cf.role_arn \notin {None, ""}

\* C6: with both a service key and a role the aws strategies take the service
\* key path in setup and in cleanup: the call is accepted, no role is assumed,
\* the strategy writes AWS_SHARED_CREDENTIALS_FILE only, the three role
\* variables keep their pre-call values throughout, the caller's block runs
\* with the credentials file variable naming the service key, and after the
\* block the environment is as before the call.
C6_BothTakesServiceKeyPath ==
    Both =>
        /\ "assume_role" \notin log
        /\ touched \subseteq {"AWS_SHARED_CREDENTIALS_FILE"} \cup PointerVars
        /\ \A v \in AwsRoleVars : EnvGet(env, v) = EnvGet(env0, v)
        /\ exc.type # "Exception"
        /\ pc = "work" => EnvGet(env, "AWS_SHARED_CREDENTIALS_FILE") = ServiceKeyPath
        /\ (Done /\ work = 1) => env = env0

\* registry_auth_aws was called with both, the block ran and returned, and the
\* credentials file variable, set before the call, was written and restored.
C6_Witness ==
    /\ Done /\ Both /\ call.entry = "registry_auth"
    /\ work = 1 /\ exc = NoExc
    /\ "AWS_SHARED_CREDENTIALS_FILE" \in touched
    /\ "AWS_SHARED_CREDENTIALS_FILE" \in DOMAIN env0
    /\ "aws_finally" \in log

\* The extensions of the formats decrypt_file is meant for.
Structured == {".yaml", ".yml", ".json"}

\* decrypt_file was entered directly, on a file that exists.
Direct == call.entry = "decrypt_file" /\ Cf.file.exists

\* decrypt_file has yielded to the caller's block, or the call is over.
Settled == pc = "work" \/ Done

\* The block ran with the original path and no error came from decrypt_file.
YieldedOriginal ==
    /\ cmds = <<>>
    /\ tmp.decrypted = None
    /\ pc = "work" => yielded = "encrypted_path"
    /\ Done => (work = 1 /\ yielded = "encrypted_path" /\ exc.type \in {None, "WorkError"})

\* C7: for a .yaml, .yml or .json file that parses, whatever its top-level
\* value, decrypt_file runs sops and yields a new temporary file exactly when
\* the document has a top-level key 'sops'; without that key it yields the
\* original path, raises nothing and does not run sops.
C7_DecryptsIffTopLevelSopsKey ==
    (Direct /\ Cf.file.ext \in Structured /\ Cf.file.parse = "ok" /\ Settled) =>
        IF HasSopsKey(Cf.file.doc)
        THEN /\ cmds = <<"sops">>
             /\ pc = "work" => (yielded = tmp.decrypted /\ yielded \in files)
        ELSE YieldedOriginal

\* C8: for a .yaml, .yml or .json file that does not parse, whatever error the
\* parser reports, decrypt_file yields the original path, raises nothing and
\* does not run sops.
C8_UnparseableYieldsOriginal ==
    (Direct /\ Cf.file.ext \in Structured /\ Cf.file.parse # "ok" /\ Settled) =>
        YieldedOriginal

\* C9: the temporary file decrypt_file creates exists only from its creation
\* to the end of decrypt_file's with-block (the sops command, the block, the
\* exit): it is gone when the call is over however the block or sops ended,
\* and in the gcloud strategies it is gone when the second command and the
\* caller's block run.
C9_TempFileOnlyInsideBlock ==
    /\ files # {} =>
          \/ pc \in {"decrypt_file_sops", "gcloud_activate", "decrypt_file_exit"}
          \/ pc = "work" /\ call.entry = "decrypt_file"
    /\ files \subseteq {tmp.decrypted}

\* registry_auth_gcloud decrypted its key to a temporary file, and the
\* caller's block runs after that file was deleted.
C9_Witness ==
    /\ pc = "work" /\ call.entry = "registry_auth" /\ Cf.provider = "gcloud"
    /\ tmp.decrypted # None /\ yielded = tmp.decrypted
    /\ tmp.decrypted \notin files
    /\ Len(cmds) = 3

C11_DockerMergeKeepsTheRest ==
    \A i \in DOMAIN docker :
        LET prior   == docker[i].file.doc
            written == docker[i].written
            others  == DOMAIN prior.helpers \ {RegistryHost}
        IN  /\ written.hasHelpers
            /\ DOMAIN written.helpers = others \cup {RegistryHost}
            /\ written.helpers[RegistryHost] = "ecr-login"
            /\ \A h \in others : written.helpers[h] = prior.helpers[h]
            /\ written.other = prior.other
            /\ DockerMerge(DockerRead([exists |-> TRUE, doc |-> written]),
                           RegistryHost) = written

\* The file held credHelpers for another hostname only, and other keys.
C11_Witness ==
    /\ pc = "work"
    /\ call.entry = "registry_auth"
    /\ Len(docker) = 1
    /\ docker[1].file.exists
    /\ DOMAIN docker[1].file.doc.helpers = {"gcr.io"}
    /\ docker[1].file.doc.other
    /\ docker[1].written.helpers["gcr.io"] = "gcloud"

\* C12: registry_auth with push false and check_registry false is a no-op fast
\* path: the configuration is not read, no command is run and nothing is
\* decrypted, no environment variable and no file is written, no error is
\* raised, and the caller's block runs exactly once.
FastPath == call.entry = "registry_auth" /\ ~call.push /\ ~call.check_registry

C12_FastPathIsNoOp ==
    FastPath /\ pc # "registry_auth" =>
        /\ "get_config" \notin log
        /\ cmds = <<>>
        /\ yielded = None
        /\ tmp = NoTmp
        /\ files = {}
        /\ touched = {}
        /\ env = env0
        /\ docker = <<>>
        /\ pc \in {"work", "done"}
        /\ pc = "work" => work = 0 /\ exc = NoExc
        /\ pc = "done" => work = 1 /\ exc.type \in {None, "WorkError"}

\* The fast path has returned to its caller.
C12_Witness ==
    /\ FastPath
    /\ Done
    /\ work = 1
    /\ exc = NoExc

\* The ways the setup of an aws strategy fails that C13 and C14 name.  Each is
\* read off the call's state once its finally clause has been entered.
AwsCall ==
    /\ ViaAuth
    /\ Cf.subtree = "present"
    /\ Cf.provider = "aws"
    /\ Cf.bag = "ok"

\* registry_auth_aws raised FileNotFoundError for the service key (line 100).
MissingKeyFile ==
    /\ AwsCall
    /\ call.entry = "registry_auth"
    /\ Cf.service_key \notin {None, ""}
    /\ "aws_finally" \in log
    /\ loc.original_credential_file_loc = Unbound

\* assume_role raised (lines 127 and 286).
RoleNotAssumed ==
    /\ AwsCall
    /\ Cf.service_key \in {None, ""}
    /\ "aws_finally" \in log
    /\ loc.creds = NoCreds

\* The setup failed after one or two of the three exports.
PartialExport ==
    /\ AwsCall
    /\ Cf.service_key \in {None, ""}
    /\ "aws_finally" \in log
    /\ loc.creds # NoCreds
    /\ DOMAIN loc.creds # DOMAIN Creds

\* An error raised by a restore step of a finally clause.
CleanupError(e) ==
    /\ e.type \in {"UnboundLocalError", "KeyError"}
    /\ e.arg \in EnvVars

\* C13: when the setup of an aws strategy fails -- the service key file is
\* missing, the role cannot be assumed, or the setup fails after only some of
\* the three role variables were exported -- the error that reaches the caller
\* is the error of the setup, not one raised by the cleanup.
C13_RootCauseReachesCaller ==
    Done /\ (MissingKeyFile \/ RoleNotAssumed \/ PartialExport) =>
        /\ work = 0
        /\ exc # NoExc
        /\ ~CleanupError(exc)

\* C14: at whatever point the setup of an aws strategy fails (service key file
\* missing, docker configuration unreadable or unwritable, role not assumed,
\* failure after one or two of the three exports, aws eks update-kubeconfig
\* exiting non-zero) and whichever of the variables existed before the call,
\* each of the four AWS variables has its pre-call value, or is absent if it
\* was absent, when the error reaches the caller.
C14_AwsSetupFailureUndone ==
    Done /\ AwsCall /\ work = 0 =>
        /\ exc # NoExc
        /\ \A v \in AwsVars : EnvGet(env, v) = EnvGet(env0, v)

\* The setup failed after AWS_ACCESS_KEY_ID alone was exported, over a value
\* the variable had before, with AWS_SECRET_ACCESS_KEY absent before the call.
C14_Witness ==
    /\ Done
    /\ PartialExport
    /\ "SecretAccessKey" \notin DOMAIN loc.creds
    /\ order = <<<<"set", "AWS_ACCESS_KEY_ID">>, <<"restore", "AWS_ACCESS_KEY_ID">>>>
    /\ EnvGet(env0, "AWS_ACCESS_KEY_ID") = "orig"
    /\ EnvGet(env0, "AWS_SECRET_ACCESS_KEY") = None
    /\ EnvGet(env0, "AWS_SESSION_TOKEN") = ""

\* The local that holds the value saved for a variable.
Saved(env_var) ==
    CASE env_var = "KUBECONFIG"                  -> loc.orig_kubeconfig
      [] env_var = "AWS_SHARED_CREDENTIALS_FILE" -> loc.original_credential_file_loc
      [] env_var = "AWS_ACCESS_KEY_ID"           -> loc.original_access_key_id
      [] env_var = "AWS_SECRET_ACCESS_KEY"       -> loc.original_secret_access_key
      [] env_var = "AWS_SESSION_TOKEN"           -> loc.original_session_token

\* C15: unset_env_var restores the prior state for every saved value and
\* every state of the variable at release time: afterwards the variable is
\* absent if None was saved and holds the saved value otherwise, and no error
\* is raised, also when the variable is not set when it is released.
C15_ReleaseRestoresAndNeverRaises ==
    /\ \A i \in DOMAIN order :
          order[i][1] = "restore" =>
              EnvGet(env, order[i][2]) = Saved(order[i][2])
    /\ \A v \in EnvVars :
          Saved(v) # Unbound => exc \notin {Exc("KeyError", v)}

IsSet(e) == e[1] = "set"

IsRestore(e) == e[1] = "restore"

\* The variables of the entries of a part of order.
Names(q) == [i \in DOMAIN q |-> q[i][2]]

\* The variables the call set, and those it restored, in the order it did.
SetOrder == Names(SelectSeq(order, IsSet))

RestoreOrder == Names(SelectSeq(order, IsRestore))

Reverse(q) == [i \in 1 .. Len(q) |-> q[Len(q) + 1 - i]]

\* A call whose setup succeeded and whose block has run is over.
Unwound == Done /\ ViaAuth /\ work = 1

InnerEntered == log \cap {"inner_raised", "inner_returned"} # {}

C17_NestedCallsUnwindInLayers ==
    /\ Done /\ stack # <<>> /\ work = 1 =>
          /\ env = env0
          /\ LET outer == stack[Len(stack)]
             IN  \A i \in DOMAIN outer.order :
                    /\ outer.order[i][1] = "set"
                    /\ EnvGet(env, outer.order[i][2]) # None
                    /\ EnvGet(env, outer.order[i][2]) \notin OldValues
    /\ Done /\ stack = <<>> /\ work = 1 /\ InnerEntered =>
          env = env0

\* A call was entered in the with-block of cluster_auth by role, its block
\* raised, and both calls are over.
C17_Witness ==
    /\ Done
    /\ stack = <<>>
    /\ work = 1
    /\ call.entry = "cluster_auth"
    /\ Cf.service_key = None
    /\ "inner_raised" \in log
    /\ Len(order) = 8
    /\ DOMAIN env0 = EnvVars

\* The steps that run a cluster credential-fetch command.
FetchSteps ==
    {"gcloud_get_credentials", "aws_update_kubeconfig", "azure_aks_get_credentials"}

\* The names of the temporary files the process has created so far.
TmpNames == { TmpName(n) : n \in 1 .. tmpCount }

\* C18: in a call of cluster_auth with a known provider, KUBECONFIG names the
\* call's fresh temporary file, which is not the pre-call value, whenever a
\* credential-fetch command runs and while the caller's block runs; once the
\* call is over, on any path, KUBECONFIG names no temporary file of the
\* process, so that no later call finds one in it when it starts.
C18_KubeconfigIsEphemeralPointer ==
    /\ call.entry = "cluster_auth" /\ pc \in FetchSteps \cup {"work"} =>
          /\ Cf.provider \in {"gcloud", "aws", "azure"}
          /\ tmp.kubeconfig \in TmpNames
          /\ EnvGet(env, "KUBECONFIG") = tmp.kubeconfig
          /\ EnvGet(env0, "KUBECONFIG") # tmp.kubeconfig
    /\ pc \in {"done", "idle"} => EnvGet(env, "KUBECONFIG") \notin TmpNames
    /\ EnvGet(env0, "KUBECONFIG") \notin TmpNames

\* The block of a second call of cluster_auth runs: the first call's file is
\* not what this call found in KUBECONFIG.
C18_Witness ==
    /\ call.entry = "cluster_auth"
    /\ pc = "work"
    /\ tmp.kubeconfig = TmpName(2)
    /\ EnvGet(env, "KUBECONFIG") = TmpName(2)
    /\ EnvGet(env0, "KUBECONFIG") = "orig"
    /\ cmds # <<>>

\* The commands of a strategy after the resolution of its secret, in the
\* order the strategy runs them.
Logins ==
    CASE Cf.provider = "gcloud" ->
           <<"gcloud auth activate-service-account",
             IF call.entry = "cluster_auth"
             THEN "gcloud container clusters get-credentials"
             ELSE "gcloud auth configure-docker">>
      [] Cf.provider = "azure" ->
           <<"az login",
             IF call.entry = "cluster_auth" THEN "az aks get-credentials"
                                            ELSE "az acr login">>
      [] Cf.provider = "aws" ->
           IF call.entry = "cluster_auth" THEN <<"aws eks update-kubeconfig">>
                                          ELSE <<>>
      [] OTHER -> <<>>

\* Every list of commands a strategy can have run when its setup is complete:
\* the secret is decrypted by sops first, or used as it is.
Setups ==
    {Logins} \cup (IF Cf.provider = "gcloud" THEN {<<"sops">> \o Logins} ELSE {})

IsPrefix(p, q) == Len(p) <= Len(q) /\ SubSeq(q, 1, Len(p)) = p

\* C19: in every strategy the caller's block runs only after every setup step
\* has succeeded, in the fixed order secret resolution, login or activation,
\* registry login or credential fetch; a command that exits non-zero is a hard
\* failure: no later step is run, the block never runs, and no command is run
\* more than once in a call.
C19_SetupInOrderNoRetry ==
    /\ ViaAuth /\ ~FastPath =>
          /\ \E q \in Setups : IsPrefix(cmds, q)
          /\ pc = "work" \/ work > 0 => cmds \in Setups
          /\ pc = "work" => exc = NoExc
          /\ pc = "work" /\ Cf.provider = "aws" /\ Cf.service_key \in {None, ""} =>
                "assume_role" \in log
    /\ exc.type = "CalledProcessError" =>
          /\ work = 0
          /\ pc # "work"
          /\ cmds # <<>>
          /\ cmds[Len(cmds)] = exc.arg
    /\ \A i, j \in DOMAIN cmds : i # j => cmds[i] # cmds[j]

\* The block runs after sops, the activation and the credential fetch of the
\* gcloud strategy of cluster_auth.
C19_Witness ==
    /\ pc = "work"
    /\ call.entry = "cluster_auth"
    /\ cmds = <<"sops", "gcloud auth activate-service-account",
                "gcloud container clusters get-credentials">>

\* A call that reaches an azure strategy.
AzureCall ==
    /\ ViaAuth
    /\ Cf.subtree = "present"
    /\ Cf.provider = "azure"
    /\ Cf.bag = "ok"

\* C20: in registry_auth_azure and cluster_auth_azure the auth file follows
\* the sops detection rule: when its document has the top-level sops key, sops
\* is run before az login, which then uses the decrypted appId, tenant and
\* password; without the key the file is used as it is and sops is not run.
C20_AzureAuthFileDecrypted ==
    AzureCall /\ cmds # <<>> =>
        IF HasSopsKey(Cf.file.doc)
        THEN cmds[1] = "sops"
        ELSE cmds[1] = "az login"

=============================================================================
